---------------------------- MODULE Spec2Model ----------------------------
(***************************************************************************)
(* Model of ds/list/list.go: the list index of rosedb.                     *)
(*                                                                         *)
(* A List owns one map, record, from string keys to *list.List.  A         *)
(* *list.List is either the nil pointer or a doubly linked list; the       *)
(* linked list is modelled by the sequence of its element values, head     *)
(* first, and a *list.Element by its position in that sequence (0 is the   *)
(* nil element pointer).  A []byte is either the nil slice or a sequence   *)
(* of bytes.                                                               *)
(***************************************************************************)
EXTENDS Integers, Sequences, FiniteSets, TLC

---------------------------------------------------------------------------
(* Bounds of the model.                                                    *)

\* Largest number of elements the index holds, over all keys.
MaxTotal == 4
\* Largest number of values given to one LPush / RPush call.
MaxPush == 2
\* Largest absolute value of an ordinary index argument.
MaxIdx == 4
\* Largest absolute value of an ordinary count argument of LRem.
MaxCount == 2

\* The keys callers use.
Keys == {"k1", "k2"}

---------------------------------------------------------------------------
(* Go values.                                                              *)

\* Range of Go's int (the narrowest the language allows, 32 bits; the
\* wrap-around of unary minus is the same at 64 bits).
MaxInt == 2147483647
MinInt == (0 - MaxInt) - 1

\* Unary minus on an int: two's complement wraps at MinInt.
Neg(x) == IF x = MinInt THEN MinInt ELSE 0 - x

\* x >> 1 for a non-negative int.
Shr1(x) == x \div 2

\* The nil []byte, and a non-nil []byte holding the bytes d.
NilBytes == [isnil |-> TRUE, bytes |-> <<>>]
Bytes(d) == [isnil |-> FALSE, bytes |-> d]

\* The nil *list.List, and a pointer to a list holding the elements s.
NilList == [isnil |-> TRUE, elems |-> <<>>]
MkList(s) == [isnil |-> FALSE, elems |-> s]

\* list.New()
ListNew == MkList(<<>>)

\* The values callers store, and the values they search for.
Vals == {Bytes(<<1>>), Bytes(<<2>>)}
SearchVals == Vals \cup {NilBytes, Bytes(<<1, 2>>)}

\* Index arguments: the ordinary ones and the two extremes of int.
SmallIdx == (0 - MaxIdx) .. MaxIdx
Idx == SmallIdx \cup {MinInt, MaxInt}
\* Count arguments of LRem.
Counts == ((0 - MaxCount) .. MaxCount) \cup {MinInt, MaxInt}

\* Insert options of LInsert.
Before == 0
After == 1

---------------------------------------------------------------------------
(* container/list, on sequences.  Positions are 1..Len; 0 is nil.          *)

ListLen(l) == Len(l.elems)
Front(l) == IF Len(l.elems) = 0 THEN 0 ELSE 1
Back(l) == Len(l.elems)
ElemNext(l, p) == IF p >= Len(l.elems) THEN 0 ELSE p + 1
ElemPrev(l, p) == IF p <= 1 THEN 0 ELSE p - 1
ElemValue(l, p) == l.elems[p]

PushFront(l, v) == MkList(<<v>> \o l.elems)
PushBack(l, v) == MkList(Append(l.elems, v))
InsertBefore(l, v, p) ==
    MkList(SubSeq(l.elems, 1, p - 1) \o <<v>> \o SubSeq(l.elems, p, Len(l.elems)))
InsertAfter(l, v, p) ==
    MkList(SubSeq(l.elems, 1, p) \o <<v>> \o SubSeq(l.elems, p + 1, Len(l.elems)))
ListRemove(l, p) ==
    MkList(SubSeq(l.elems, 1, p - 1) \o SubSeq(l.elems, p + 1, Len(l.elems)))
SetValue(l, p, v) == MkList([l.elems EXCEPT ![p] = v])

\* for _, e := range ele { item.Remove(e) }: the elements are removed one
\* by one; a handle behind a removed element moves down by one position.
RECURSIVE RemoveEach(_, _)
RemoveEach(l, ele) ==
    IF ele = <<>> THEN l
    ELSE RemoveEach(ListRemove(l, Head(ele)),
                    [i \in 1 .. (Len(ele) - 1) |->
                        IF ele[i + 1] > Head(ele) THEN ele[i + 1] - 1 ELSE ele[i + 1]])

---------------------------------------------------------------------------
(* The map lis.record.                                                     *)

\* New(): an empty map.
New == << >>

\* lis.record[key]: the zero value, the nil pointer, for a missing key.
Lookup(rec, key) == IF key \in DOMAIN rec THEN rec[key] ELSE NilList
\* lis.record[key] = l
Store(rec, key, l) == [k \in (DOMAIN rec) \cup {key} |-> IF k = key THEN l ELSE rec[k]]
\* delete(lis.record, key)
Delete(rec, key) == [k \in (DOMAIN rec) \ {key} |-> rec[k]]

---------------------------------------------------------------------------
(* The helpers of list.go.                                                 *)

\* sliceOfByteIsEqual: equal lengths, then byte by byte.
sliceOfByteIsEqual(a, b) ==
    LET aLen == Len(a.bytes)
        bLen == Len(b.bytes)
    IN IF aLen = bLen
       THEN \A i \in 1 .. aLen : a.bytes[i] = b.bytes[i]
       ELSE FALSE

\* Mutant of handleIndex: a negative end is not offset by length.
handleIndexEndAsIs(length, start, end) ==
    LET s1 == IF start < 0 THEN start + length ELSE start
        s2 == IF s1 < 0 THEN 0 ELSE s1
        e2 == IF end >= length THEN length - 1 ELSE end
    IN [start |-> s2, end |-> e2]

\* handleIndex: negative arguments are offset by length, then start is
\* floored to 0 and end capped to length - 1.
handleIndex(length, start, end) ==
    LET s1 == IF start < 0 THEN start + length ELSE start
        e1 == IF end < 0 THEN end + length ELSE end
        s2 == IF s1 < 0 THEN 0 ELSE s1
        e2 == IF e1 >= length THEN length - 1 ELSE e1
    IN [start |-> s2, end |-> e2]

\* Mutant of validIndex: the offset equal to the length passes.
validIndexInclusive(rec, key, idx) ==
    LET item == Lookup(rec, key)
    IN IF item.isnil \/ ListLen(item) <= 0
       THEN [ok |-> FALSE, index |-> idx]
       ELSE LET length == ListLen(item)
                i1 == IF idx < 0 THEN idx + length ELSE idx
            IN [ok |-> (i1 >= 0 /\ i1 <= length), index |-> i1]

\* validIndex: (ok, newIndex).
validIndex(rec, key, idx) ==
    LET item == Lookup(rec, key)
    IN IF item.isnil \/ ListLen(item) <= 0
       THEN [ok |-> FALSE, index |-> idx]
       ELSE LET length == ListLen(item)
                i1 == IF idx < 0 THEN idx + length ELSE idx
            IN [ok |-> (i1 >= 0 /\ i1 < length), index |-> i1]

\* for i := 0; i < index; i++ { val = val.Next() }
RECURSIVE WalkNext(_, _, _, _)
WalkNext(l, p, i, idx) ==
    IF i < idx THEN WalkNext(l, ElemNext(l, p), i + 1, idx) ELSE p

\* Mutant of WalkPrev: the walk from the tail stops one element late.
RECURSIVE WalkPrevOneMore(_, _, _, _)
WalkPrevOneMore(l, p, i, idx) ==
    IF i >= idx THEN WalkPrevOneMore(l, ElemPrev(l, p), i - 1, idx) ELSE p

\* for i := item.Len() - 1; i > index; i-- { val = val.Prev() }
RECURSIVE WalkPrev(_, _, _, _)
WalkPrev(l, p, i, idx) ==
    IF i > idx THEN WalkPrev(l, ElemPrev(l, p), i - 1, idx) ELSE p

\* index: the element at a logical index, reached from the nearer end;
\* 0 (nil) when the index is not valid.
index(rec, key, idx) ==
    LET vi == validIndex(rec, key, idx)
        item == Lookup(rec, key)
    IN IF ~vi.ok THEN 0
       ELSE IF ~item.isnil /\ ListLen(item) > 0
            THEN IF vi.index <= Shr1(ListLen(item))
                 THEN WalkNext(item, Front(item), 0, vi.index)
                 ELSE WalkPrev(item, Back(item), ListLen(item) - 1, vi.index)
            ELSE 0

\* Mutant of findLoop: no break, the last equal element is kept.
RECURSIVE findLoopLast(_, _, _)
findLoopLast(l, p, val) ==
    IF p = 0 THEN 0
    ELSE LET later == findLoopLast(l, ElemNext(l, p), val)
         IN IF later # 0 THEN later
            ELSE IF sliceOfByteIsEqual(ElemValue(l, p), val) THEN p ELSE 0

\* for p := item.Front(); p != nil; p = p.Next() { if equal { e = p; break } }
RECURSIVE findLoop(_, _, _)
findLoop(l, p, val) ==
    IF p = 0 THEN 0
    ELSE IF sliceOfByteIsEqual(ElemValue(l, p), val) THEN p
         ELSE findLoop(l, ElemNext(l, p), val)

\* find: the first element, from the head, equal to val; 0 (nil) if none.
find(rec, key, val) ==
    LET item == Lookup(rec, key)
    IN IF ~item.isnil THEN findLoop(item, Front(item), val) ELSE 0

\* Mutant of pushLoop: every value goes to the tail.
RECURSIVE pushLoopBack(_, _, _)
pushLoopBack(l, front, val) ==
    IF val = <<>> THEN l
    ELSE pushLoopBack(PushBack(l, Head(val)), front, Tail(val))

\* for _, v := range val { PushFront(v) or PushBack(v) }
RECURSIVE pushLoop(_, _, _)
pushLoop(l, front, val) ==
    IF val = <<>> THEN l
    ELSE pushLoop(IF front THEN PushFront(l, Head(val)) ELSE PushBack(l, Head(val)),
                  front, Tail(val))

\* Mutant of push: no list is created when there is nothing to push.
pushLazyCreate(rec, front, key, val) ==
    IF val = <<>>
    THEN [rec |-> rec,
          ret |-> IF Lookup(rec, key).isnil THEN 0 ELSE ListLen(Lookup(rec, key))]
    ELSE LET rec1 == IF Lookup(rec, key).isnil THEN Store(rec, key, ListNew) ELSE rec
             rec2 == Store(rec1, key, pushLoop(rec1[key], front, val))
         IN [rec |-> rec2, ret |-> ListLen(rec2[key])]

\* Mutant of push: the length is taken before the values are pushed.
pushStaleLen(rec, front, key, val) ==
    LET rec1 == IF Lookup(rec, key).isnil THEN Store(rec, key, ListNew) ELSE rec
        rec2 == Store(rec1, key, pushLoop(rec1[key], front, val))
    IN [rec |-> rec2, ret |-> ListLen(rec1[key])]

\* push: creates the list when the key has none, pushes, returns the length.
push(rec, front, key, val) ==
    LET rec1 == IF Lookup(rec, key).isnil THEN Store(rec, key, ListNew) ELSE rec
        rec2 == Store(rec1, key, pushLoop(rec1[key], front, val))
    IN [rec |-> rec2, ret |-> ListLen(rec2[key])]

\* Mutant of pop: the entry of a list that becomes empty is deleted.
popDropsEmptied(rec, front, key) ==
    LET item == Lookup(rec, key)
    IN IF ~item.isnil /\ ListLen(item) > 0
       THEN LET e == IF front THEN Front(item) ELSE Back(item)
            IN [rec |-> IF ListLen(item) = 1 THEN Delete(rec, key)
                        ELSE Store(rec, key, ListRemove(item, e)),
                ret |-> ElemValue(item, e)]
       ELSE [rec |-> rec, ret |-> NilBytes]

\* Mutant of pop: the element is always taken from the head.
popHeadOnly(rec, front, key) ==
    LET item == Lookup(rec, key)
    IN IF ~item.isnil /\ ListLen(item) > 0
       THEN [rec |-> Store(rec, key, ListRemove(item, Front(item))),
             ret |-> ElemValue(item, Front(item))]
       ELSE [rec |-> rec, ret |-> NilBytes]

\* pop: removes and returns the element at one end; the nil slice when the
\* key has no list or an empty one.
pop(rec, front, key) ==
    LET item == Lookup(rec, key)
    IN IF ~item.isnil /\ ListLen(item) > 0
       THEN LET e == IF front THEN Front(item) ELSE Back(item)
            IN [rec |-> Store(rec, key, ListRemove(item, e)), ret |-> ElemValue(item, e)]
       ELSE [rec |-> rec, ret |-> NilBytes]

---------------------------------------------------------------------------
(* The operations of list.go.  Each gives the map after the call (rec)     *)
(* and the value returned (ret).                                           *)

LPush(rec, key, val) == push(rec, TRUE, key, val)
LPop(rec, key) == pop(rec, TRUE, key)
RPush(rec, key, val) == push(rec, FALSE, key, val)
RPop(rec, key) == pop(rec, FALSE, key)

LIndex(rec, key, idx) ==
    LET e == index(rec, key, idx)
    IN [rec |-> rec,
        ret |-> IF e # 0 THEN ElemValue(Lookup(rec, key), e) ELSE NilBytes]

\* count == 0: for p := item.Front(); p != nil; p = p.Next()
RECURSIVE remAll(_, _, _, _)
remAll(l, p, val, ele) ==
    IF p = 0 THEN ele
    ELSE remAll(l, ElemNext(l, p), val,
                IF sliceOfByteIsEqual(ElemValue(l, p), val) THEN Append(ele, p) ELSE ele)

\* count > 0: for p := item.Front(); p != nil && len(ele) < count; p = p.Next()
RECURSIVE remFront(_, _, _, _, _)
remFront(l, p, val, limit, ele) ==
    IF p = 0 \/ ~(Len(ele) < limit) THEN ele
    ELSE remFront(l, ElemNext(l, p), val, limit,
                  IF sliceOfByteIsEqual(ElemValue(l, p), val) THEN Append(ele, p) ELSE ele)

\* count < 0: for p := item.Back(); p != nil && len(ele) < -count; p = p.Prev()
RECURSIVE remBack(_, _, _, _, _)
remBack(l, p, val, limit, ele) ==
    IF p = 0 \/ ~(Len(ele) < limit) THEN ele
    ELSE remBack(l, ElemPrev(l, p), val, limit,
                 IF sliceOfByteIsEqual(ElemValue(l, p), val) THEN Append(ele, p) ELSE ele)

LRem(rec, key, val, count) ==
    LET item == Lookup(rec, key)
    IN IF item.isnil THEN [rec |-> rec, ret |-> 0]
       ELSE LET ele0 == IF count = 0 THEN remAll(item, Front(item), val, <<>>) ELSE <<>>
                ele1 == IF count > 0 THEN remFront(item, Front(item), val, count, ele0)
                        ELSE ele0
                ele == IF count < 0 THEN remBack(item, Back(item), val, Neg(count), ele1)
                       ELSE ele1
            IN [rec |-> Store(rec, key, RemoveEach(item, ele)), ret |-> Len(ele)]

LInsert(rec, key, option, pivot, val) ==
    LET e == find(rec, key, pivot)
    IN IF e = 0 THEN [rec |-> rec, ret |-> 0 - 1]
       ELSE LET item == rec[key]
                item1 == IF option = Before THEN InsertBefore(item, val, e) ELSE item
                \* the handle e follows its element past a value put before it
                e1 == IF option = Before THEN e + 1 ELSE e
                item2 == IF option = After THEN InsertAfter(item1, val, e1) ELSE item1
            IN [rec |-> Store(rec, key, item2), ret |-> ListLen(item2)]

LSet(rec, key, idx, val) ==
    LET e == index(rec, key, idx)
    IN IF e = 0 THEN [rec |-> rec, ret |-> FALSE]
       ELSE [rec |-> Store(rec, key, SetValue(rec[key], e, val)), ret |-> TRUE]

\* Mutant of rangeLeft: the element at start is skipped.
RECURSIVE rangeLeftAfterStart(_, _, _, _, _, _)
rangeLeftAfterStart(l, p, flag, start, end, val) ==
    IF p = 0 \/ ~(flag <= end) THEN val
    ELSE rangeLeftAfterStart(l, ElemNext(l, p), flag + 1, start, end,
                             IF flag > start THEN Append(val, ElemValue(l, p)) ELSE val)

\* Traverse from left to right:
\* for p, flag := item.Front(), 0; p != nil && flag <= end; p, flag = p.Next(), flag+1
RECURSIVE rangeLeft(_, _, _, _, _, _)
rangeLeft(l, p, flag, start, end, val) ==
    IF p = 0 \/ ~(flag <= end) THEN val
    ELSE rangeLeft(l, ElemNext(l, p), flag + 1, start, end,
                   IF flag >= start THEN Append(val, ElemValue(l, p)) ELSE val)

\* Traverse from right to left:
\* for p, flag := item.Back(), length-1; p != nil && flag >= start; p, flag = p.Prev(), flag-1
RECURSIVE rangeRight(_, _, _, _, _, _)
rangeRight(l, p, flag, start, end, val) ==
    IF p = 0 \/ ~(flag >= start) THEN val
    ELSE rangeRight(l, ElemPrev(l, p), flag - 1, start, end,
                    IF flag <= end THEN Append(val, ElemValue(l, p)) ELSE val)

\* for i, j := 0, len(val)-1; i < j; i, j = i+1, j-1 { val[i], val[j] = val[j], val[i] }
reverse(val) == [i \in 1 .. Len(val) |-> val[Len(val) + 1 - i]]

\* Mutant of rangeFromLeft: both conditions are required.
rangeFromLeftBoth(length, start, end) ==
    LET mid == Shr1(length)
    IN end <= mid /\ end - mid < mid - start

\* The scan direction LRange takes for a normalized, non-empty range.
rangeFromLeft(length, start, end) ==
    LET mid == Shr1(length)
    IN end <= mid \/ end - mid < mid - start

scanLeft(item, start, end) == rangeLeft(item, Front(item), 0, start, end, <<>>)
\* Mutant of scanRight: the accumulated result is not reversed.
scanRightUnreversed(item, start, end) ==
    rangeRight(item, Back(item), ListLen(item) - 1, start, end, <<>>)

scanRight(item, start, end) ==
    reverse(rangeRight(item, Back(item), ListLen(item) - 1, start, end, <<>>))

\* The value returned (ret), and the loop that ran (scan): "left", "right",
\* or "none" when LRange returned before either.
LRange(rec, key, start, end) ==
    LET item == Lookup(rec, key)
    IN IF item.isnil \/ ListLen(item) <= 0
       THEN [rec |-> rec, ret |-> <<>>, scan |-> "none"]
       ELSE LET length == ListLen(item)
                h == handleIndex(length, start, end)
            IN IF h.start > h.end \/ h.start >= length
               THEN [rec |-> rec, ret |-> <<>>, scan |-> "none"]
               ELSE IF rangeFromLeft(length, h.start, h.end)
                    THEN [rec |-> rec, ret |-> scanLeft(item, h.start, h.end),
                          scan |-> "left"]
                    ELSE [rec |-> rec, ret |-> scanRight(item, h.start, h.end),
                          scan |-> "right"]

\* for p := startEle; p != endEle.Next(); p = p.Next() { newList.PushBack(p.Value) }
RECURSIVE trimCopy(_, _, _, _)
trimCopy(l, p, stop, newList) ==
    IF p = stop THEN newList
    ELSE trimCopy(l, ElemNext(l, p), stop, PushBack(newList, ElemValue(l, p)))

\* for p := item.Front(); p != startEle; p = p.Next() { ele = append(ele, p) }
RECURSIVE trimPrefix(_, _, _, _)
trimPrefix(l, p, startEle, ele) ==
    IF p = startEle THEN ele
    ELSE trimPrefix(l, ElemNext(l, p), startEle, Append(ele, p))

\* for p := item.Back(); p != endEle; p = p.Prev() { ele = append(ele, p) }
RECURSIVE trimSuffix(_, _, _, _)
trimSuffix(l, p, endEle, ele) ==
    IF p = endEle THEN ele
    ELSE trimSuffix(l, ElemPrev(l, p), endEle, Append(ele, p))

\* The strategy LTrim takes for a normalized, non-empty, partial range.
trimRebuilds(length, start, end) == end - start + 1 < Shr1(length)

\* Mutant of trimRebuild: the copy stops at endEle instead of after it.
trimRebuildShort(item, startEle, endEle) ==
    trimCopy(item, startEle, endEle, ListNew)

trimRebuild(item, startEle, endEle) ==
    trimCopy(item, startEle, ElemNext(item, endEle), ListNew)
trimInPlace(item, startEle, endEle) ==
    RemoveEach(item, trimSuffix(item, Back(item), endEle,
                                trimPrefix(item, Front(item), startEle, <<>>)))

LTrim(rec, key, start, end) ==
    LET item == Lookup(rec, key)
    IN IF item.isnil \/ ListLen(item) <= 0 THEN [rec |-> rec, ret |-> FALSE]
       ELSE LET length == ListLen(item)
                h == handleIndex(length, start, end)
            IN IF h.start <= 0 /\ h.end >= length - 1 THEN [rec |-> rec, ret |-> FALSE]
               ELSE IF h.start > h.end \/ h.start >= length
                    THEN [rec |-> Store(rec, key, NilList), ret |-> TRUE]
                    ELSE LET startEle == index(rec, key, h.start)
                             endEle == index(rec, key, h.end)
                         IN IF trimRebuilds(length, h.start, h.end)
                            THEN [rec |-> Store(rec, key, trimRebuild(item, startEle, endEle)),
                                  ret |-> TRUE]
                            ELSE [rec |-> Store(rec, key, trimInPlace(item, startEle, endEle)),
                                  ret |-> TRUE]

LLen(rec, key) ==
    [rec |-> rec,
     ret |-> IF ~Lookup(rec, key).isnil THEN ListLen(Lookup(rec, key)) ELSE 0]

\* Mutant of LClear: the entry is kept, with a nil pointer.
LClearToNil(rec, key) == [rec |-> Store(rec, key, NilList), ret |-> 0]

\* Mutant of LClear: the whole map is emptied.
LClearAll(rec, key) == [rec |-> New, ret |-> 0]

LClear(rec, key) == [rec |-> Delete(rec, key), ret |-> 0]

LKeyExists(rec, key) == [rec |-> rec, ret |-> key \in DOMAIN rec]

\* The inner loop of DumpIterate over one key's list.  fn fails on its
\* failAt-th call (never when failAt is 0); visited are the entries handed to fn.
RECURSIVE dumpList(_, _, _, _, _)
dumpList(l, p, key, failAt, visited) ==
    IF p = 0 THEN [visited |-> visited, err |-> FALSE, panic |-> FALSE]
    ELSE LET ent == [key |-> key, value |-> ElemValue(l, p), typ |-> 1, mark |-> 1]
             seen == Append(visited, ent)
         IN IF Len(seen) = failAt
            THEN [visited |-> seen, err |-> TRUE, panic |-> FALSE]
            ELSE dumpList(l, ElemNext(l, p), key, failAt, seen)

\* The outer loop of DumpIterate: the keys in the order the map yields them.
\* l.Front() on a nil *list.List dereferences nil.
RECURSIVE dumpKeys(_, _, _, _)
dumpKeys(rec, order, failAt, visited) ==
    IF order = <<>> THEN [visited |-> visited, err |-> FALSE, panic |-> FALSE]
    ELSE LET l == rec[Head(order)]
         IN IF l.isnil THEN [visited |-> visited, err |-> FALSE, panic |-> TRUE]
            ELSE LET r == dumpList(l, Front(l), Head(order), failAt, visited)
                 IN IF r.err THEN r
                    ELSE dumpKeys(rec, Tail(order), failAt, r.visited)

DumpIterate(rec, order, failAt) ==
    [rec |-> rec, ret |-> dumpKeys(rec, order, failAt, <<>>)]

---------------------------------------------------------------------------
(* The state machine: one List, called one operation at a time.            *)

VARIABLES
    record,       \* lis.record
    prev,         \* lis.record before the last call
    op,           \* the last call: its name, arguments and results
    pushPopOnly,  \* history: only pushes, pops, LLen and LKeyExists so far
    net           \* history: per key, values pushed minus elements popped

vars == <<record, prev, op, pushPopOnly, net>>

\* Number of elements held over all keys.
RECURSIVE SumLen(_, _)
SumLen(rec, ks) ==
    IF ks = {} THEN 0
    ELSE LET k == CHOOSE x \in ks : TRUE
         IN ListLen(rec[k]) + SumLen(rec, ks \ {k})
TotalLen(rec) == SumLen(rec, DOMAIN rec)

\* The argument lists of a push.
ValSeqs == UNION {[1 .. n -> Vals] : n \in 0 .. MaxPush}

\* The orders in which a range over the map can yield its keys.
Orders(rec) ==
    {s \in [1 .. Cardinality(DOMAIN rec) -> DOMAIN rec] :
        \A i, j \in DOMAIN s : i # j => s[i] # s[j]}

\* The calls at which the visitor of DumpIterate fails; 0: it never fails.
FailAts == 0 .. MaxTotal

NoCall ==
    [name |-> "New", key |-> "", front |-> FALSE, vals |-> <<>>, start |-> 0, end |-> 0,
     val |-> NilBytes, pivot |-> NilBytes, option |-> 0, count |-> 0,
     order |-> <<>>, failAt |-> 0,
     retInt |-> 0, retBool |-> FALSE, retVal |-> NilBytes, retSeq |-> <<>>,
     scan |-> "none", visited |-> <<>>, err |-> FALSE, panic |-> FALSE]

ZeroNet == [k \in Keys |-> 0]

Init ==
    /\ record = New
    /\ prev = New
    /\ op = NoCall
    /\ pushPopOnly = TRUE
    /\ net = ZeroNet

\* The caller makes one call at a time: a call is made when the result of
\* the last one has been taken.  The call leaves the map as the operation
\* left it and op as the record of the call.
Return(call, rec, clean, delta) ==
    /\ op = NoCall
    /\ TotalLen(rec) <= MaxTotal
    /\ record' = rec
    /\ prev' = record
    /\ op' = call
    /\ pushPopOnly' = (pushPopOnly /\ clean)
    /\ net' = IF pushPopOnly /\ clean
              THEN [net EXCEPT ![call.key] = @ + delta]
              ELSE ZeroNet

CallLPush ==
    \E key \in Keys, val \in ValSeqs :
        LET r == LPush(record, key, val)
        IN Return([NoCall EXCEPT !.name = "LPush", !.key = key, !.front = TRUE,
                                 !.vals = val, !.retInt = r.ret],
                  r.rec, TRUE, Len(val))

CallRPush ==
    \E key \in Keys, val \in ValSeqs :
        LET r == RPush(record, key, val)
        IN Return([NoCall EXCEPT !.name = "RPush", !.key = key, !.vals = val,
                                 !.retInt = r.ret],
                  r.rec, TRUE, Len(val))

CallLPop ==
    \E key \in Keys :
        LET r == LPop(record, key)
        IN Return([NoCall EXCEPT !.name = "LPop", !.key = key, !.front = TRUE,
                                 !.retVal = r.ret],
                  r.rec, TRUE, IF r.ret.isnil THEN 0 ELSE 0 - 1)

CallRPop ==
    \E key \in Keys :
        LET r == RPop(record, key)
        IN Return([NoCall EXCEPT !.name = "RPop", !.key = key, !.retVal = r.ret],
                  r.rec, TRUE, IF r.ret.isnil THEN 0 ELSE 0 - 1)

CallLIndex ==
    \E key \in Keys, idx \in Idx :
        LET r == LIndex(record, key, idx)
        IN Return([NoCall EXCEPT !.name = "LIndex", !.key = key, !.start = idx,
                                 !.retVal = r.ret],
                  r.rec, FALSE, 0)

CallLRem ==
    \E key \in Keys, val \in SearchVals, count \in Counts :
        LET r == LRem(record, key, val, count)
        IN Return([NoCall EXCEPT !.name = "LRem", !.key = key, !.val = val,
                                 !.count = count, !.retInt = r.ret],
                  r.rec, FALSE, 0)

CallLInsert ==
    \E key \in Keys, option \in {Before, After}, pivot \in SearchVals, val \in Vals :
        LET r == LInsert(record, key, option, pivot, val)
        IN Return([NoCall EXCEPT !.name = "LInsert", !.key = key, !.option = option,
                                 !.pivot = pivot, !.val = val, !.retInt = r.ret],
                  r.rec, FALSE, 0)

CallLSet ==
    \E key \in Keys, idx \in Idx, val \in Vals :
        LET r == LSet(record, key, idx, val)
        IN Return([NoCall EXCEPT !.name = "LSet", !.key = key, !.start = idx,
                                 !.val = val, !.retBool = r.ret],
                  r.rec, FALSE, 0)

CallLRange ==
    \E key \in Keys, start \in Idx, end \in Idx :
        LET r == LRange(record, key, start, end)
        IN Return([NoCall EXCEPT !.name = "LRange", !.key = key, !.start = start,
                                 !.end = end, !.retSeq = r.ret, !.scan = r.scan],
                  r.rec, FALSE, 0)

CallLTrim ==
    \E key \in Keys, start \in Idx, end \in Idx :
        LET r == LTrim(record, key, start, end)
        IN Return([NoCall EXCEPT !.name = "LTrim", !.key = key, !.start = start,
                                 !.end = end, !.retBool = r.ret],
                  r.rec, FALSE, 0)

CallLLen ==
    \E key \in Keys :
        LET r == LLen(record, key)
        IN Return([NoCall EXCEPT !.name = "LLen", !.key = key, !.retInt = r.ret],
                  r.rec, TRUE, 0)

CallLClear ==
    \E key \in Keys :
        LET r == LClear(record, key)
        IN Return([NoCall EXCEPT !.name = "LClear", !.key = key], r.rec, FALSE, 0)

CallLKeyExists ==
    \E key \in Keys :
        LET r == LKeyExists(record, key)
        IN Return([NoCall EXCEPT !.name = "LKeyExists", !.key = key, !.retBool = r.ret],
                  r.rec, TRUE, 0)

CallDumpIterate ==
    \E order \in Orders(record), failAt \in FailAts :
        LET r == DumpIterate(record, order, failAt)
        IN Return([NoCall EXCEPT !.name = "DumpIterate", !.key = "k1", !.order = order,
                                 !.failAt = failAt, !.visited = r.ret.visited,
                                 !.err = r.ret.err, !.panic = r.ret.panic],
                  r.rec, FALSE, 0)

\* The caller takes the result of the last call.  A panic ends the program.
Resume ==
    /\ op # NoCall
    /\ ~op.panic
    /\ op' = NoCall
    /\ prev' = record
    /\ UNCHANGED <<record, pushPopOnly, net>>

Next ==
    \/ Resume
    \/ CallLPush
    \/ CallRPush
    \/ CallLPop
    \/ CallRPop
    \/ CallLIndex
    \/ CallLRem
    \/ CallLInsert
    \/ CallLSet
    \/ CallLRange
    \/ CallLTrim
    \/ CallLLen
    \/ CallLClear
    \/ CallLKeyExists
    \/ CallDumpIterate

Spec == Init /\ [][Next]_vars

---------------------------------------------------------------------------
(* What the properties are stated with.                                    *)

\* The logical list of a key, head first: empty for an absent key, a nil
\* placeholder and an empty list.
Contents(rec, key) == Lookup(rec, key).elems

\* Positions s..e of L, counted from 0, both included.
Slice(L, s, e) == SubSeq(L, s + 1, e + 1)

\* A sequence back to front.
Reversed(L) == [i \in 1 .. Len(L) |-> L[Len(L) + 1 - i]]

\* Two byte strings hold the same bytes.
SameBytes(a, b) == a.bytes = b.bytes

\* An index or offset with the length added when it is negative.
Offset(n, i) == IF i < 0 THEN i + n ELSE i
\* The normalized bounds of a range over a list of length n.
NormStart(n, start) == IF Offset(n, start) < 0 THEN 0 ELSE Offset(n, start)
NormEnd(n, end) == IF Offset(n, end) > n - 1 THEN n - 1 ELSE Offset(n, end)
EmptyRange(n, start, end) ==
    NormStart(n, start) > NormEnd(n, end) \/ NormStart(n, start) >= n
\* The elements of L in the normalized range.
Selected(L, start, end) ==
    IF EmptyRange(Len(L), start, end) THEN <<>>
    ELSE Slice(L, NormStart(Len(L), start), NormEnd(Len(L), end))

\* The keys other than the one called hold what they held.
OthersUnchanged ==
    \A k \in Keys \ {op.key} :
        /\ (k \in DOMAIN record) = (k \in DOMAIN prev)
        /\ Lookup(record, k) = Lookup(prev, k)

\* The values LPop returns when called until the list is empty.
RECURSIVE PopAll(_, _)
PopAll(rec, key) ==
    IF LLen(rec, key).ret = 0 THEN <<>>
    ELSE LET r == LPop(rec, key) IN <<r.ret>> \o PopAll(r.rec, key)

\* Everything LRange returns for the whole list of a key.
WholeRange(rec, key) == LRange(rec, key, 0, LLen(rec, key).ret - 1).ret

---------------------------------------------------------------------------
(* Properties.                                                             *)

\* C1: after any sequence of LPush/RPush/LPop/RPop calls from a new index,
\* LLen(key) is the number of values pushed to the key minus the number of
\* pops on it that returned an element, and a push returns that length.
C1_LenIsPushesMinusPops ==
    pushPopOnly =>
        /\ \A k \in Keys : LLen(record, k).ret = net[k]
        /\ (op.name \in {"LPush", "RPush"} => op.retInt = net[op.key])

C1_Witness ==
    /\ pushPopOnly
    /\ op.name = "RPop"
    /\ ~op.retVal.isnil
    /\ net[op.key] = 2
    /\ \E k \in Keys \ {op.key} : net[k] = 1

\* C2: RPush(key, v1..vn) leaves the list as L followed by v1..vn, and
\* LPush(key, v1..vn) leaves it as vn..v1 followed by L.
C2_PushPlacesValues ==
    /\ (op.name = "RPush" =>
            Contents(record, op.key) = Contents(prev, op.key) \o op.vals)
    /\ (op.name = "LPush" =>
            Contents(record, op.key) = Reversed(op.vals) \o Contents(prev, op.key))

C2_Witness ==
    /\ op.name = "LPush"
    /\ Len(op.vals) = 2
    /\ op.vals[1] # op.vals[2]
    /\ Len(Contents(prev, op.key)) = 2
    /\ Contents(record, op.key) = <<op.vals[2], op.vals[1]>> \o Contents(prev, op.key)

\* C3: a pop on a key that is absent, holds a nil placeholder or holds an
\* empty list returns the nil slice and leaves the whole index unchanged;
\* on a non-empty list LPop returns and removes exactly the head and RPop
\* exactly the tail, the rest keeping its order.
C3_PopContract ==
    op.name \in {"LPop", "RPop"} =>
        LET L == Contents(prev, op.key)
        IN IF L = <<>>
           THEN op.retVal = NilBytes /\ record = prev
           ELSE IF op.name = "LPop"
                THEN op.retVal = L[1] /\ Contents(record, op.key) = Tail(L)
                ELSE /\ op.retVal = L[Len(L)]
                     /\ Contents(record, op.key) = SubSeq(L, 1, Len(L) - 1)

C3_Witness ==
    /\ op.name = "RPop"
    /\ Len(Contents(prev, op.key)) = 3
    /\ Contents(prev, op.key)[1] # Contents(prev, op.key)[3]
    /\ op.retVal = Contents(prev, op.key)[3]
    /\ Len(Contents(record, op.key)) = 2

\* C4: in every reachable state LRange(key, 0, LLen(key)-1) returns all
\* elements of the list head to tail, and that is the sequence of values
\* LPop returns when called until the list is empty.
C4_RangeEqualsPops ==
    /\ \A k \in Keys :
        /\ WholeRange(record, k) = Contents(record, k)
        /\ WholeRange(record, k) = PopAll(record, k)
    /\ (op.name = "LRange" /\ op.start = 0 /\ op.end = LLen(prev, op.key).ret - 1 =>
            op.retSeq = PopAll(prev, op.key))

C4_Witness ==
    /\ op.name = "LRange"
    /\ op.start = 0
    /\ op.end = LLen(prev, op.key).ret - 1
    /\ Len(op.retSeq) = 4
    /\ op.retSeq[1] # op.retSeq[4]
    /\ op.retSeq = PopAll(prev, op.key)

\* C5: on a list of length n > 0 LRange returns exactly the elements of the
\* normalized range, head to tail, and nothing when that range is empty;
\* both scan directions give that result; LRange does not modify the list.
C5_RangeContract ==
    op.name = "LRange" /\ Len(Contents(prev, op.key)) > 0 =>
        LET L == Contents(prev, op.key)
            n == Len(L)
        IN /\ op.retSeq = Selected(L, op.start, op.end)
           /\ record = prev
           /\ (~EmptyRange(n, op.start, op.end) =>
                 /\ scanLeft(prev[op.key], NormStart(n, op.start), NormEnd(n, op.end))
                        = Selected(L, op.start, op.end)
                 /\ scanRight(prev[op.key], NormStart(n, op.start), NormEnd(n, op.end))
                        = Selected(L, op.start, op.end))

C5_Witness ==
    /\ op.name = "LRange"
    /\ Len(Contents(prev, op.key)) = 4
    /\ op.start = 0 - 2
    /\ op.end = 0 - 1
    /\ op.retSeq = SubSeq(Contents(prev, op.key), 3, 4)
    /\ op.retSeq[1] # op.retSeq[2]
    /\ ~rangeFromLeft(4, 2, 3)

\* C6: for 0 <= i < n LIndex(key, i) and LIndex(key, i-n) both return the
\* element at position i; for an index whose offset lies outside [0, n), and
\* for an absent or empty key, LIndex returns the nil slice.
C6_IndexContract ==
    /\ \A k \in Keys :
        LET L == Contents(record, k)
        IN \A i \in 0 .. (Len(L) - 1) :
            /\ LIndex(record, k, i).ret = L[i + 1]
            /\ LIndex(record, k, i - Len(L)).ret = L[i + 1]
    /\ (op.name = "LIndex" =>
            LET L == Contents(prev, op.key)
                j == Offset(Len(L), op.start)
            IN op.retVal = IF 0 <= j /\ j < Len(L) THEN L[j + 1] ELSE NilBytes)

C6_Witness ==
    /\ op.name = "LIndex"
    /\ Len(Contents(prev, op.key)) = 4
    /\ op.start = 0 - 2
    /\ op.retVal = Contents(prev, op.key)[3]
    /\ Contents(prev, op.key)[3] # Contents(prev, op.key)[2]
    /\ Contents(prev, op.key)[3] # Contents(prev, op.key)[4]

\* C7: LSet returns true exactly when the key has a non-empty list and the
\* offset of the index lies in [0, length); then only the element at that
\* position is replaced; when it returns false the whole index is unchanged.
C7_SetContract ==
    op.name = "LSet" =>
        LET L == Contents(prev, op.key)
            j == Offset(Len(L), op.start)
            valid == 0 <= j /\ j < Len(L)
        IN /\ op.retBool = valid
           /\ IF valid
              THEN /\ Contents(record, op.key) = [L EXCEPT ![j + 1] = op.val]
                   /\ OthersUnchanged
              ELSE record = prev

C7_Witness ==
    /\ op.name = "LSet"
    /\ op.retBool
    /\ op.start = 0 - 3
    /\ Len(Contents(prev, op.key)) = 4
    /\ Contents(prev, op.key)[2] # op.val
    /\ Contents(record, op.key)[2] = op.val

\* C8: with the pivot present LInsert puts val immediately before (Before)
\* or after (After) the first occurrence of pivot from the head, the length
\* grows by 1 and is returned, the other elements keep their order; with the
\* pivot absent or no list under the key it returns -1 and changes nothing.
C8_InsertContract ==
    op.name = "LInsert" =>
        LET L == Contents(prev, op.key)
            P == {i \in 1 .. Len(L) : SameBytes(L[i], op.pivot)}
        IN IF P = {}
           THEN op.retInt = 0 - 1 /\ record = prev
           ELSE LET p == CHOOSE i \in P : \A j \in P : i <= j
                    at == IF op.option = Before THEN p - 1 ELSE p
                IN /\ Contents(record, op.key)
                        = SubSeq(L, 1, at) \o <<op.val>> \o SubSeq(L, at + 1, Len(L))
                   /\ op.retInt = Len(L) + 1

C8_Witness ==
    /\ op.name = "LInsert"
    /\ op.option = After
    /\ op.retInt = 4
    /\ op.val # op.pivot
    /\ Contents(prev, op.key)[1] # op.pivot
    /\ Contents(prev, op.key)[2] = op.pivot
    /\ Contents(prev, op.key)[3] = op.pivot
    /\ Contents(record, op.key)[3] = op.val

\* The elements of L at the positions not in R, in their order.
RECURSIVE Keep(_, _, _)
Keep(L, R, i) ==
    IF i > Len(L) THEN <<>>
    ELSE (IF i \in R THEN <<>> ELSE <<L[i]>>) \o Keep(L, R, i + 1)

\* The k positions of M nearest the head, and nearest the tail.
NearestHead(M, k) == {i \in M : Cardinality({j \in M : j < i}) < k}
NearestTail(M, k) == {i \in M : Cardinality({j \in M : j > i}) < k}

\* The positions LRem is to remove from L, for every count.
ToRemove(L, val, count) ==
    LET M == {i \in 1 .. Len(L) : SameBytes(L[i], val)}
        m == Cardinality(M)
    IN IF count = 0 THEN M
       ELSE IF count > 0 THEN NearestHead(M, IF count < m THEN count ELSE m)
       ELSE NearestTail(M, IF count <= 0 - m THEN m ELSE 0 - count)

\* What the contract of LRem asks of the last call.
RemAsStated ==
    LET L == Contents(prev, op.key)
        R == ToRemove(L, op.val, op.count)
    IN /\ op.retInt = Cardinality(R)
       /\ Contents(record, op.key) = Keep(L, R, 1)
       /\ (Lookup(prev, op.key).isnil => op.retInt = 0 /\ record = prev)

\* C9: LRem removes all occurrences of v when count = 0, the min(count, m)
\* nearest the head when count > 0, the min(|count|, m) nearest the tail when
\* count < 0; it returns the number removed, removes nothing else, keeps the
\* order of the rest, and returns 0 and changes nothing when there is no list.
C9_RemContract == op.name = "LRem" => RemAsStated

\* The same for every count whose negation is representable.
C9_RemContractNoMinInt == op.name = "LRem" /\ op.count # MinInt => RemAsStated

\* LRem with the least int as count removes nothing, whatever the list holds.
C9_MinIntRemovesNothing ==
    op.name = "LRem" /\ op.count = MinInt => op.retInt = 0 /\ record = prev

C9_Witness ==
    /\ op.name = "LRem"
    /\ op.count = MinInt
    /\ op.retInt = 0
    /\ \E i \in 1 .. Len(Contents(prev, op.key)) :
          SameBytes(Contents(prev, op.key)[i], op.val)

\* C10: after LTrim on a non-empty list the contents, read by
\* LRange(key, 0, LLen(key)-1), are exactly the elements that were in the
\* normalized range, in their order, under both trimming strategies.
C10_TrimContract ==
    op.name = "LTrim" /\ Len(Contents(prev, op.key)) > 0 =>
        /\ WholeRange(record, op.key) = Selected(Contents(prev, op.key), op.start, op.end)
        /\ Contents(record, op.key) = Selected(Contents(prev, op.key), op.start, op.end)

\* A trim that rebuilds the list.
C10_Witness ==
    /\ op.name = "LTrim"
    /\ op.retBool
    /\ Len(Contents(prev, op.key)) = 4
    /\ op.start = 2
    /\ op.end = 0 - 2
    /\ trimRebuilds(4, 2, 2)
    /\ Contents(prev, op.key)[3] # Contents(prev, op.key)[2]
    /\ WholeRange(record, op.key) = <<Contents(prev, op.key)[3]>>

\* A trim that removes the prefix and the suffix in place.
C10_WitnessInPlace ==
    /\ op.name = "LTrim"
    /\ op.retBool
    /\ Len(Contents(prev, op.key)) = 4
    /\ op.start = 1
    /\ op.end = 2
    /\ ~trimRebuilds(4, 1, 2)
    /\ Contents(prev, op.key)[2] # Contents(prev, op.key)[3]
    /\ WholeRange(record, op.key) = SubSeq(Contents(prev, op.key), 2, 3)

\* C11: LTrim returns true if and only if the contents of the list differ
\* after the call; it returns false and changes nothing when the normalized
\* range covers the whole list or the key is absent or empty.
C11_TrimReturnsChanged ==
    op.name = "LTrim" =>
        LET L == Contents(prev, op.key)
            n == Len(L)
            whole == n > 0 /\ NormStart(n, op.start) = 0 /\ NormEnd(n, op.end) = n - 1
        IN /\ op.retBool = (Contents(record, op.key) # L)
           /\ (~op.retBool => record = prev)
           /\ (n = 0 \/ whole => ~op.retBool)
           /\ (n > 0 /\ ~whole => op.retBool /\ Len(Contents(record, op.key)) < n)

\* A partial trim of a list whose elements are all equal.
C11_Witness ==
    /\ op.name = "LTrim"
    /\ op.retBool
    /\ Contents(prev, op.key) = <<Bytes(<<1>>), Bytes(<<1>>), Bytes(<<1>>)>>
    /\ Contents(record, op.key) = <<Bytes(<<1>>), Bytes(<<1>>)>>

\* C12: no operation is fatal: in every reachable state every operation,
\* DumpIterate included, returns and never dereferences nil.
C12_NoOperationFaults == ~op.panic

\* DumpIterate returns whenever no key holds a nil placeholder.
C12_DumpReturnsWithoutPlaceholder ==
    op.name = "DumpIterate" /\ (\A k \in DOMAIN prev : ~prev[k].isnil) => ~op.panic

\* DumpIterate with a visitor that never fails faults whenever a key holds
\* a nil placeholder.
C12_DumpFaultsOnPlaceholder ==
    op.name = "DumpIterate" /\ op.failAt = 0 /\ (\E k \in DOMAIN prev : prev[k].isnil)
        => op.panic

\* C13: after an LTrim whose normalized range is empty or out of bounds
\* LLen(key) is 0 and LKeyExists(key) is still true; after LClear(key)
\* LLen(key) is 0 and LKeyExists(key) is false, whatever the key held.
C13_TrimKeepsEntryClearDrops ==
    /\ (/\ op.name = "LTrim"
        /\ LKeyExists(prev, op.key).ret
        /\ EmptyRange(Len(Contents(prev, op.key)), op.start, op.end)
        => LLen(record, op.key).ret = 0 /\ LKeyExists(record, op.key).ret)
    /\ (op.name = "LClear"
        => LLen(record, op.key).ret = 0 /\ ~LKeyExists(record, op.key).ret)

\* A trim to nothing of a list of three elements.
C13_Witness ==
    /\ op.name = "LTrim"
    /\ Len(Contents(prev, op.key)) = 3
    /\ op.start = 2
    /\ op.end = 1
    /\ LLen(record, op.key).ret = 0
    /\ LKeyExists(record, op.key).ret

\* A clear of a key that holds a nil placeholder.
C13_WitnessClear ==
    /\ op.name = "LClear"
    /\ op.key \in DOMAIN prev
    /\ prev[op.key].isnil
    /\ ~LKeyExists(record, op.key).ret

\* The index built by replaying entries, in their order, as RPush(key, value)
\* into a new index.
RECURSIVE ReplayInto(_, _)
ReplayInto(rec, entries) ==
    IF entries = <<>> THEN rec
    ELSE ReplayInto(RPush(rec, Head(entries).key, <<Head(entries).value>>).rec,
                    Tail(entries))
Replay(entries) == ReplayInto(New, entries)

\* The round trip gives every key the contents and the length it had.
SameLists(a, b) ==
    \A k \in Keys :
        /\ LRange(a, k, 0, 0 - 1).ret = LRange(b, k, 0, 0 - 1).ret
        /\ LLen(a, k).ret = LLen(b, k).ret

\* C14: round trip: DumpIterate with a visitor that replays each record as
\* RPush(key, value) into a new index gives an index in which every key has
\* the same contents and length as in the original, in any reachable state.
C14_RoundTrip ==
    op.name = "DumpIterate" /\ op.failAt = 0 =>
        ~op.panic /\ SameLists(Replay(op.visited), prev)

\* The round trip whenever DumpIterate returns.
C14_RoundTripWhenReturned ==
    op.name = "DumpIterate" /\ op.failAt = 0 /\ ~op.panic =>
        SameLists(Replay(op.visited), prev)

\* The entries of the stored elements, the keys in the given order and each
\* key's elements head to tail.
RECURSIVE AllEntries(_, _)
AllEntries(rec, order) ==
    IF order = <<>> THEN <<>>
    ELSE [i \in 1 .. Len(Contents(rec, Head(order))) |->
             [key |-> Head(order), value |-> Contents(rec, Head(order))[i],
              typ |-> 1, mark |-> 1]]
         \o AllEntries(rec, Tail(order))

\* What the contract of DumpIterate asks of the last call.
DumpAsStated ==
    LET all == AllEntries(prev, op.order)
    IN /\ record = prev
       /\ ~op.panic
       /\ IF op.failAt \in 1 .. Len(all)
          THEN op.err /\ op.visited = SubSeq(all, 1, op.failAt)
          ELSE ~op.err /\ op.visited = all

\* C15: when the visitor fails on an element DumpIterate calls it on no
\* further element and returns the error; when it never fails it is called
\* exactly once per stored element, each key's elements head to tail, and
\* DumpIterate returns no error.  The index is unchanged.
C15_DumpContract == op.name = "DumpIterate" => DumpAsStated

\* The same whenever no key holds a nil placeholder.
C15_DumpContractWithoutPlaceholder ==
    op.name = "DumpIterate" /\ (\A k \in DOMAIN prev : ~prev[k].isnil) => DumpAsStated

\* LLen and the contents of every key are what they were.
ListsUnchanged ==
    \A k \in Keys :
        /\ LLen(record, k).ret = LLen(prev, k).ret
        /\ WholeRange(record, k) = WholeRange(prev, k)

\* C16: LPush/RPush with no values is a no-op that returns the current
\* length: LLen, contents and LKeyExists of every key, the pushed key
\* included, are the same after the call as before.
C16_EmptyPushIsNoOp ==
    op.name \in {"LPush", "RPush"} /\ op.vals = <<>> =>
        /\ op.retInt = LLen(prev, op.key).ret
        /\ ListsUnchanged
        /\ \A k \in Keys : LKeyExists(record, k).ret = LKeyExists(prev, k).ret

\* C16, amended: LPush/RPush with no values returns the current length and
\* leaves LLen and contents of every key and LKeyExists of every other key
\* unchanged; the pushed key has an entry afterwards, also when it had none.
C16_EmptyPushCreatesEntry ==
    op.name \in {"LPush", "RPush"} /\ op.vals = <<>> =>
        /\ op.retInt = LLen(prev, op.key).ret
        /\ ListsUnchanged
        /\ \A k \in Keys \ {op.key} : LKeyExists(record, k).ret = LKeyExists(prev, k).ret
        /\ LKeyExists(record, op.key).ret

\* A push of no values on an absent key, next to a key that holds a list.
C16_Witness ==
    /\ op.name = "LPush"
    /\ op.vals = <<>>
    /\ ~LKeyExists(prev, op.key).ret
    /\ LKeyExists(record, op.key).ret
    /\ op.retInt = 0
    /\ \E k \in Keys \ {op.key} : LLen(prev, k).ret = 2

\* C17: LKeyExists(key) turns from false to true only by a push on that key
\* and from true to false only by LClear(key); emptying a list by a pop,
\* LRem or LTrim leaves it true, and no other operation on an absent key
\* creates an entry.
C17_EntryLifecycle ==
    \A k \in Keys :
        /\ (~LKeyExists(prev, k).ret /\ LKeyExists(record, k).ret
                => op.name \in {"LPush", "RPush"} /\ op.key = k)
        /\ (LKeyExists(prev, k).ret /\ ~LKeyExists(record, k).ret
                => op.name = "LClear" /\ op.key = k)

\* A pop that empties a list and leaves its entry.
C17_Witness ==
    /\ op.name = "LPop"
    /\ Len(Contents(prev, op.key)) = 1
    /\ LLen(record, op.key).ret = 0
    /\ LKeyExists(record, op.key).ret

\* C18: for a non-empty normalized range on a list of length n LRange scans
\* head to tail only if end <= n/2 and the head-side span, end+1, is not
\* larger than the tail-side span, n-start; otherwise it scans tail to head.
C18_ScanWhenBoth ==
    op.name = "LRange" /\ Len(Contents(prev, op.key)) > 0
        /\ ~EmptyRange(Len(Contents(prev, op.key)), op.start, op.end) =>
        LET n == Len(Contents(prev, op.key))
            s == NormStart(n, op.start)
            e == NormEnd(n, op.end)
        IN /\ op.scan \in {"left", "right"}
           /\ (op.scan = "left") = (e <= n \div 2 /\ e + 1 <= n - s)

\* C18, amended: for a non-empty normalized range on a list of length n
\* LRange scans head to tail if end <= n/2 or end - n/2 < n/2 - start, and
\* tail to head otherwise.
C18_ScanWhenEither ==
    op.name = "LRange" /\ Len(Contents(prev, op.key)) > 0
        /\ ~EmptyRange(Len(Contents(prev, op.key)), op.start, op.end) =>
        LET n == Len(Contents(prev, op.key))
            s == NormStart(n, op.start)
            e == NormEnd(n, op.end)
        IN /\ op.scan \in {"left", "right"}
           /\ (op.scan = "left") = (e <= n \div 2 \/ e - n \div 2 < n \div 2 - s)

\* A scan from the head that visits more elements than one from the tail.
C18_Witness ==
    /\ op.name = "LRange"
    /\ Len(Contents(prev, op.key)) = 4
    /\ op.start = 2
    /\ op.end = 2
    /\ op.scan = "left"
    /\ op.retSeq = <<Contents(prev, op.key)[3]>>

\* A scan from the tail.
C18_WitnessRight ==
    /\ op.name = "LRange"
    /\ Len(Contents(prev, op.key)) = 4
    /\ op.start = 2
    /\ op.end = 3
    /\ op.scan = "right"

\* What the operations named by C19 give on a key of rec whose logical list
\* is empty: the results of an empty list, and a push that depends on the
\* pushed values alone.
EmptyAnswers(rec, k) ==
    /\ LLen(rec, k).ret = 0
    /\ LPop(rec, k).ret = NilBytes
    /\ RPop(rec, k).ret = NilBytes
    /\ \A i \in Idx : LIndex(rec, k, i).ret = NilBytes
    /\ \A i \in Idx, j \in Idx : LRange(rec, k, i, j).ret = <<>>
    /\ \A i \in Idx, v \in Vals : LSet(rec, k, i, v).ret = FALSE
    /\ \A i \in Idx, j \in Idx : LTrim(rec, k, i, j).ret = FALSE
    /\ \A o \in {Before, After}, pv \in SearchVals, v \in Vals :
          LInsert(rec, k, o, pv, v).ret = 0 - 1
    /\ \A v \in SearchVals, c \in Counts : LRem(rec, k, v, c).ret = 0
    /\ \A vs \in ValSeqs :
          /\ RPush(rec, k, vs).ret = Len(vs)
          /\ Contents(RPush(rec, k, vs).rec, k) = vs
          /\ LPush(rec, k, vs).ret = Len(vs)
          /\ Contents(LPush(rec, k, vs).rec, k) = Reversed(vs)

\* An order of keys without the key k.
OrderWithout(order, k) ==
    LET Other(x) == x # k IN SelectSeq(order, Other)

\* DumpIterate gives on rec what it gives when the key k is absent.
DumpAsIfAbsent(rec, k) ==
    \A order \in Orders(rec), f \in FailAts :
        DumpIterate(rec, order, f).ret
            = DumpIterate(Delete(rec, k), OrderWithout(order, k), f).ret

\* The keys of the index whose logical list is empty.  The index is looked
\* at between two calls.
EmptyKeys == {k \in Keys : Contents(record, k) = <<>>}

\* C19: an absent key, a key with a nil placeholder and a key with an empty
\* list are indistinguishable through every operation except LKeyExists:
\* LLen gives 0, the pops and LIndex the nil slice, LRange nothing, LSet and
\* LTrim false, LInsert -1, LRem 0, and the same push the same list.
C19_EmptyAlike ==
    op = NoCall =>
        \A k \in EmptyKeys : EmptyAnswers(record, k) /\ DumpAsIfAbsent(record, k)

\* The same for the operations C19 names.
C19_EmptyAlikeForNamed ==
    op = NoCall => \A k \in EmptyKeys : EmptyAnswers(record, k)

\* All three representations occur.
C19_Witness ==
    /\ "k1" \in DOMAIN record /\ record["k1"].isnil
    /\ "k2" \in DOMAIN record /\ record["k2"] = ListNew

\* The operations that may change the list of their key.
Mutating == {"LPush", "RPush", "LPop", "RPop", "LSet", "LInsert", "LRem", "LTrim", "LClear"}
\* The operations that only read.
Reading == {"LIndex", "LRange", "LLen", "LKeyExists"}

\* C20: an operation on key k leaves the contents, the length and the
\* LKeyExists result of every other key unchanged, and LIndex, LRange, LLen
\* and LKeyExists leave the whole index unchanged.
C20_KeyIsolation ==
    /\ (op.name \in Mutating =>
            /\ OthersUnchanged
            /\ \A k \in Keys \ {op.key} :
                /\ WholeRange(record, k) = WholeRange(prev, k)
                /\ LLen(record, k).ret = LLen(prev, k).ret
                /\ LKeyExists(record, k).ret = LKeyExists(prev, k).ret)
    /\ (op.name \in Reading => record = prev)

\* A clear of one key next to a key that holds a list.
C20_Witness ==
    /\ op.name = "LClear"
    /\ LKeyExists(prev, op.key).ret
    /\ ~LKeyExists(record, op.key).ret
    /\ \E k \in Keys \ {op.key} : LLen(record, k).ret = 2

=============================================================================
